---- MODULE Spec2Model ----
(***************************************************************************)
(* Model of src/visual.py: the chunked fetcher                             *)
(* fetch_random_bytes_from_random_org, the fallback to NumPy's generator   *)
(* in main, and the reshape and histogram steps of main.                   *)
(*                                                                         *)
(* The remote service and the pseudorandom generator are external: each    *)
(* call draws its result from a bounded family of byte patterns.  The      *)
(* service is asked for integers with min=0 and max=255, so the values of  *)
(* a parsed response are drawn from 0..255; the uint8 conversion at the    *)
(* write into the buffer is still modelled (ToUint8).                      *)
(*                                                                         *)
(* The bit-balance and autocorrelation computations of main only read      *)
(* data and produce real-valued arrays for the plots; they are not part of *)
(* the state modelled here.                                                *)
(***************************************************************************)
EXTENDS Integers, Sequences, FiniteSets

VARIABLES
    n_bytes,        \* N_BYTES of the run
    chunk_size,     \* CHUNK_SIZE of the run
    use_fallback,   \* USE_FALLBACK_IF_FAIL of the run
    pc,             \* position of the single thread of control
    out,            \* fetcher local: the array being filled
    written,        \* fetcher local: write position
    k,              \* fetcher local: iterations of the for loop completed
    r,              \* fetcher local: the response of the current request
    exc,            \* kind of the exception raised by the fetcher, or "none"
    data,           \* main local: data
    source_label,   \* main local: source_label
    side,           \* main local: side
    img,            \* main local: img
    hist_counts,    \* main local: hist_counts
    computed,       \* names among img, hist_counts that main has bound
    exit_code,      \* argument of sys.exit, or -1 while the process runs
    \* history variables
    log,            \* requests.get and time.sleep calls, in order
    responses,      \* the values of the accepted responses, in request order
    fetch_status,   \* "none", "running", "returned" or "raised"
    prng_calls,     \* number of rng.integers calls
    prng_out,       \* what rng.integers returned
    buffer          \* data as produced by the fetch-or-fallback step

config == <<n_bytes, chunk_size, use_fallback>>
fetcher == <<out, written, k, r>>
stats == <<side, img, hist_counts, computed>>
history == <<log, responses, prng_calls, prng_out, buffer>>
vars == <<config, pc, fetcher, exc, data, source_label, stats, exit_code,
          history, fetch_status>>

----------------------------------------------------------------------------
\* Program constants

N_BYTES == 256 * 256
\* variant of CHUNK_SIZE: a chunk size that divides N_BYTES
CHUNK_SIZE_Pow2 == 8 * 1024
CHUNK_SIZE == 10000
USE_FALLBACK_IF_FAIL == TRUE

RemoteLabel == "Random.org (atmospheric noise)"

\* variant of FallbackLabel: the except clause leaves the label as it was
FallbackLabel_Unchanged == "Random.org (atmospheric noise)"
FallbackLabel == "Fallback: NumPy PRNG (not true randomness)"

----------------------------------------------------------------------------
\* Bounds of the model

MaxN == 16          \* largest total byte count besides the shipped one
MaxC == 5           \* largest chunk size besides the shipped one
MaxChunks == 4      \* most chunks of one fetch in the bounded configurations

\* An array with the elements of f, a function on 1..n, as a sequence
Array(f) == SubSeq(f, 1, Len(f))

RespBases == {5, 250}
RespSteps == {0, 3}
PrngBases == {0, 5, 255}
PrngSteps == {0, 1, 128}

\* A byte pattern of the given length: values in 0..255 that differ between
\* neighbouring positions when step # 0.
Pattern(len, base, step) ==
    Array([j \in 1..len |-> (base + step * ((j - 1) % 5)) % 256])

Uninit == -1        \* an element of np.empty that was never written

NoResponse == [status |-> 0, error |-> FALSE, parseable |-> FALSE, vals |-> <<>>]

\* What requests.get can return for a request of c integers: an HTTP error
\* status, a body starting with "Error:", a body with a token int() rejects,
\* or a body of 0..c+1 integers.
Responses(c) ==
    {[status |-> 503, error |-> FALSE, parseable |-> TRUE, vals |-> <<>>],
     [status |-> 200, error |-> TRUE, parseable |-> FALSE, vals |-> <<>>],
     [status |-> 200, error |-> FALSE, parseable |-> FALSE, vals |-> <<>>]}
    \cup
    {[status |-> 200, error |-> FALSE, parseable |-> TRUE,
      vals |-> Pattern(len, b, s)] :
        len \in 0..(c + 1), b \in RespBases, s \in RespSteps}

----------------------------------------------------------------------------
\* Pure helpers

ToUint8(v) == v % 256

\* variant of ConfigOk: the multiple-of-chunk-size check is missing
ConfigOk_Always(n, c) == TRUE
ConfigOk(n, c) == n % c = 0

\* The exception the checks on a response raise, or "none".
\* (variant ResponseError_NoCount: the element count is not checked)
ResponseError_NoCount(resp, c) ==
    IF resp.status # 200 THEN "HTTPError"
    ELSE IF resp.error THEN "RuntimeError: Random.org error"
    ELSE IF ~resp.parseable THEN "ValueError: invalid literal for int()"
    ELSE "none"
ResponseError(resp, c) ==
    IF resp.status # 200 THEN "HTTPError"
    ELSE IF resp.error THEN "RuntimeError: Random.org error"
    ELSE IF ~resp.parseable THEN "ValueError: invalid literal for int()"
    ELSE IF Len(resp.vals) # c THEN "RuntimeError: Unexpected count"
    ELSE "none"

\* out[written:written+c] = np.array(vals, dtype=np.uint8)
\* (variant WriteChunk_AtZero: every chunk is written at position 0)
WriteChunk_AtZero(o, w, c, vals) ==
    Array([i \in 1..Len(o) |->
        IF i <= c /\ i \in DOMAIN vals THEN ToUint8(vals[i]) ELSE o[i]])
WriteChunk(o, w, c, vals) ==
    Array([i \in 1..Len(o) |->
        IF w < i /\ i <= w + c /\ (i - w) \in DOMAIN vals
        THEN ToUint8(vals[i - w]) ELSE o[i]])

\* rng.integers(0, 256, size=n, dtype=np.uint8)
PrngIntegers(n, base, step) == Pattern(n, base, step)

\* floor of the square root of n, by bisection: lo * lo <= n < hi * hi
RECURSIVE SqrtBetween(_, _, _)
SqrtBetween(lo, hi, n) ==
    IF hi - lo <= 1 THEN lo
    ELSE LET mid == (lo + hi) \div 2
         IN IF mid * mid <= n THEN SqrtBetween(mid, hi, n)
            ELSE SqrtBetween(lo, mid, n)
\* int(np.sqrt(n)) and int(np.floor(np.sqrt(n)))
IntSqrt(n) == SqrtBetween(0, n + 1, n)

\* data[: m]
Truncate(d, m) == IF m >= Len(d) THEN d ELSE SubSeq(d, 1, m)

\* data.reshape(s, s): row-major, img[row][col] with 0-based indices
\* (variant Reshape_ColMajor: column-major order)
Reshape_ColMajor(d, s) ==
    [row \in 0..(s - 1) |-> [col \in 0..(s - 1) |->
        IF col * s + row + 1 \in DOMAIN d THEN d[col * s + row + 1] ELSE Uninit]]
Reshape(d, s) ==
    [row \in 0..(s - 1) |-> [col \in 0..(s - 1) |->
        IF row * s + col + 1 \in DOMAIN d THEN d[row * s + col + 1] ELSE Uninit]]

\* np.histogram(data, bins=np.arange(257)): one bin per value 0..255
Histogram(d) ==
    LET present == {d[i] : i \in DOMAIN d}
    IN [v \in 0..255 |->
          IF v \in present THEN Cardinality({i \in DOMAIN d : d[i] = v}) ELSE 0]

----------------------------------------------------------------------------
\* Initial states: a bounded family of configurations and the shipped one

\* The chunk size is a positive integer.
BoundedConfigs ==
    {c \in (0..MaxN) \X (1..MaxC) \X BOOLEAN :
        c[1] % c[2] # 0 \/ c[1] \div c[2] <= MaxChunks}

Configs == BoundedConfigs \cup {<<N_BYTES, CHUNK_SIZE, USE_FALLBACK_IF_FAIL>>}

Init ==
    /\ \E c \in Configs :
          /\ n_bytes = c[1]
          /\ chunk_size = c[2]
          /\ use_fallback = c[3]
    /\ pc = "main"
    /\ out = <<>>
    /\ written = 0
    /\ k = 0
    /\ r = NoResponse
    /\ exc = "none"
    /\ data = <<>>
    /\ source_label = ""
    /\ side = 0
    /\ img = <<>>
    /\ hist_counts = <<>>
    /\ computed = {}
    /\ exit_code = -1
    /\ log = <<>>
    /\ responses = <<>>
    /\ fetch_status = "none"
    /\ prng_calls = 0
    /\ prng_out = <<>>
    /\ buffer = <<>>

----------------------------------------------------------------------------
\* The fetcher

\* An exception leaves the fetcher: its frame, with out, is gone, and control
\* is in main's except clause.
\* (variant Raise_Retry: the failure is recorded and the loop goes on)
Raise_Retry(e) ==
    /\ exc' = e
    /\ fetch_status' = "raised"
    /\ r' = NoResponse
    /\ pc' = "loop"
    /\ UNCHANGED <<out, written, k>>
Raise(e) ==
    /\ exc' = e
    /\ fetch_status' = "raised"
    /\ out' = <<>>
    /\ written' = 0
    /\ k' = 0
    /\ r' = NoResponse
    /\ pc' = "except"

\* main, lines 92-94: bind source_label and call the fetcher
MainStart ==
    /\ pc = "main"
    /\ source_label' = RemoteLabel
    /\ fetch_status' = "running"
    /\ pc' = "fetch"
    /\ UNCHANGED <<config, fetcher, exc, data, stats, exit_code, history>>

\* lines 41-45: the multiple-of-chunk-size check and the allocation
FetchEnter ==
    /\ pc = "fetch"
    /\ IF ~ConfigOk(n_bytes, chunk_size)
       THEN Raise("ValueError: n_bytes must be a multiple of chunk_size")
       ELSE /\ out' = Array([i \in 1..n_bytes |-> Uninit])
            /\ written' = 0
            /\ k' = 0
            /\ pc' = "loop"
            /\ UNCHANGED <<r, exc, fetch_status>>
    /\ UNCHANGED <<config, data, source_label, stats, exit_code, history>>

\* lines 47-57: the next iteration's requests.get, which returns a response
\* or raises (no connection, timeout)
FetchGet ==
    /\ pc = "loop"
    /\ k < n_bytes \div chunk_size
    /\ log' = Append(log, "request")
    /\ \/ /\ \E resp \in Responses(chunk_size) : r' = resp
          /\ pc' = "process"
          /\ UNCHANGED <<out, written, k, exc, fetch_status>>
       \/ Raise("RequestException")
    /\ UNCHANGED <<config, data, source_label, stats, exit_code,
                   responses, prng_calls, prng_out, buffer>>

\* lines 58-70: check the response, parse it, write the chunk
FetchProcess ==
    /\ pc = "process"
    /\ LET e == ResponseError(r, chunk_size) IN
       IF e # "none"
       THEN /\ Raise(e)
            /\ UNCHANGED responses
       ELSE /\ out' = WriteChunk(out, written, chunk_size, r.vals)
            /\ written' = written + chunk_size
            /\ responses' = Append(responses, r.vals)
            /\ pc' = "sleep"
            /\ UNCHANGED <<k, r, exc, fetch_status>>
    /\ UNCHANGED <<config, data, source_label, stats, exit_code,
                   log, prng_calls, prng_out, buffer>>

\* line 71: time.sleep, then the loop's next iteration
\* (variant FetchSleep_None: no delay is taken)
FetchSleep_None ==
    /\ pc = "sleep"
    /\ k' = k + 1
    /\ r' = NoResponse
    /\ pc' = "loop"
    /\ UNCHANGED <<config, out, written, exc, data, source_label, stats,
                   exit_code, history, fetch_status>>
FetchSleep ==
    /\ pc = "sleep"
    /\ log' = Append(log, "sleep")
    /\ k' = k + 1
    /\ r' = NoResponse
    /\ pc' = "loop"
    /\ UNCHANGED <<config, out, written, exc, data, source_label, stats,
                   exit_code, responses, prng_calls, prng_out, buffer,
                   fetch_status>>

\* lines 73 and 94: the loop is exhausted, out is returned and bound to data
FetchReturn ==
    /\ pc = "loop"
    /\ k >= n_bytes \div chunk_size
    /\ data' = out
    /\ buffer' = out
    /\ fetch_status' = "returned"
    /\ out' = <<>>
    /\ written' = 0
    /\ k' = 0
    /\ pc' = "reshape"
    /\ UNCHANGED <<config, r, exc, source_label, stats, exit_code,
                   log, responses, prng_calls, prng_out>>

----------------------------------------------------------------------------
\* main

\* lines 95-103: the except clause
\* (variant MainExcept_AlwaysFallback: USE_FALLBACK_IF_FAIL is not consulted)
MainExcept_AlwaysFallback ==
    /\ pc = "except"
    /\ \E b \in PrngBases, s \in PrngSteps :
          /\ data' = PrngIntegers(n_bytes, b, s)
          /\ prng_out' = data'
          /\ buffer' = data'
    /\ prng_calls' = prng_calls + 1
    /\ source_label' = FallbackLabel
    /\ pc' = "reshape"
    /\ UNCHANGED exit_code
    /\ UNCHANGED <<config, fetcher, exc, stats, log, responses, fetch_status>>
MainExcept ==
    /\ pc = "except"
    /\ IF ~use_fallback
       THEN /\ exit_code' = 1
            /\ pc' = "exited"
            /\ UNCHANGED <<data, source_label, prng_calls, prng_out, buffer>>
       ELSE /\ \E b \in PrngBases, s \in PrngSteps :
                  /\ data' = PrngIntegers(n_bytes, b, s)
                  /\ prng_out' = data'
                  /\ buffer' = data'
            /\ prng_calls' = prng_calls + 1
            /\ source_label' = FallbackLabel
            /\ pc' = "reshape"
            /\ UNCHANGED exit_code
    /\ UNCHANGED <<config, fetcher, exc, stats, log, responses, fetch_status>>

\* lines 106-111: side, the truncation of data, img
MainReshape ==
    /\ pc = "reshape"
    /\ LET s0 == IntSqrt(Len(data))
           s == IF s0 * s0 # Len(data) THEN IntSqrt(Len(data)) ELSE s0
           d == IF s0 * s0 # Len(data) THEN Truncate(data, s * s) ELSE data
       IN /\ side' = s
          /\ data' = d
          /\ img' = Reshape(d, s)
    /\ computed' = computed \cup {"img"}
    /\ pc' = "stats"
    /\ UNCHANGED <<config, fetcher, exc, source_label, hist_counts, exit_code,
                   history, fetch_status>>

\* line 114: the histogram of data
MainStats ==
    /\ pc = "stats"
    /\ hist_counts' = Histogram(data)
    /\ computed' = computed \cup {"hist_counts"}
    /\ pc' = "done"
    /\ UNCHANGED <<config, fetcher, exc, data, source_label, side, img,
                   exit_code, history, fetch_status>>

Next ==
    \/ MainStart
    \/ FetchEnter
    \/ FetchGet
    \/ FetchProcess
    \/ FetchSleep
    \/ FetchReturn
    \/ MainExcept
    \/ MainReshape
    \/ MainStats

Spec == Init /\ [][Next]_vars

----------------------------------------------------------------------------
\* Operators used to state the properties

FetchPcs == {"fetch", "loop", "process", "sleep"}
AfterHandOff == {"reshape", "stats", "done"}

CountOf(sq, what) == Len(SelectSeq(sq, LAMBDA e : e = what))

RECURSIVE Concat(_)
Concat(chunks) ==
    IF chunks = <<>> THEN <<>> ELSE Head(chunks) \o Concat(Tail(chunks))

RECURSIVE SumRange(_, _, _)
SumRange(f, lo, hi) ==
    IF lo = hi THEN f[lo]
    ELSE LET mid == (lo + hi) \div 2
         IN SumRange(f, lo, mid) + SumRange(f, mid + 1, hi)

Chunks == n_bytes \div chunk_size

Shipped ==
    /\ n_bytes = N_BYTES
    /\ chunk_size = CHUNK_SIZE
    /\ use_fallback = USE_FALLBACK_IF_FAIL

----------------------------------------------------------------------------
\* C1: when N is a multiple of C > 0 and every chunk response is accepted,
\* the fetcher has issued exactly N/C requests and returns a buffer of length
\* N whose bytes at [i*C, (i+1)*C) are the values of the i-th response in
\* request order, and main labels the buffer as remote.
C1_FetchReturnsChunksInOrder ==
    fetch_status = "returned" =>
        /\ chunk_size > 0
        /\ n_bytes % chunk_size = 0
        /\ CountOf(log, "request") = Chunks
        /\ Len(responses) = Chunks
        /\ Len(buffer) = n_bytes
        /\ \A i \in 0..(Chunks - 1) : \A j \in 1..chunk_size :
              buffer[i * chunk_size + j] = responses[i + 1][j]
        /\ source_label = RemoteLabel

C1_Witness ==
    /\ fetch_status = "returned"
    /\ pc = "done"
    /\ n_bytes = 16
    /\ chunk_size = 4
    /\ responses[1] # responses[2]
    /\ responses[2] # responses[3]

\* C2: a response whose body begins with the error marker, or whose parsed
\* element count differs from C, is rejected on whichever chunk it happens:
\* the fetcher raises, and the caller's data never holds the bytes of the
\* chunks accepted before (it is unbound, or it is what the generator gave).
C2_RejectedChunkExposesNothing ==
    /\ [][(/\ pc = "process"
           /\ r.status = 200
           /\ (r.error \/ (r.parseable /\ Len(r.vals) # chunk_size)))
          => (/\ pc' = "except"
              /\ fetch_status' = "raised"
              /\ exc' \in {"RuntimeError: Random.org error",
                           "RuntimeError: Unexpected count"}
              /\ out' = <<>>
              /\ data' = <<>>
              /\ buffer' = <<>>)]_vars
    /\ [](fetch_status = "raised" =>
            \/ prng_calls = 0 /\ data = <<>> /\ buffer = <<>>
            \/ prng_calls = 1 /\ buffer = prng_out
                 /\ data = SubSeq(prng_out, 1, Len(data)))

C2_Witness ==
    /\ pc = "except"
    /\ exc = "RuntimeError: Unexpected count"
    /\ Chunks = 4
    /\ Len(responses) = 3
    /\ data = <<>>

\* C3: the buffer handed to the statistics step is entirely the fetcher's
\* (the accepted responses, concatenated) or entirely the generator's, and
\* the label is the remote one iff the fetcher returned, the fallback one iff
\* the generator produced the data.
C3_LabelMatchesProducer ==
    pc \in AfterHandOff =>
        /\ RemoteLabel # FallbackLabel
        /\ \/ /\ fetch_status = "returned"
              /\ source_label = RemoteLabel
              /\ prng_calls = 0
              /\ buffer = Concat(responses)
           \/ /\ fetch_status = "raised"
              /\ source_label = FallbackLabel
              /\ source_label # RemoteLabel
              /\ prng_calls = 1
              /\ buffer = prng_out

C3_Witness ==
    /\ pc = "done"
    /\ fetch_status = "raised"
    /\ source_label = FallbackLabel
    /\ Len(responses) >= 1
    /\ buffer = prng_out
    /\ Len(buffer) > 0

\* C4: a chunk failure (transport failure, error marker, wrong count) makes
\* the fetcher raise at once, and once it has raised no further request is
\* issued: the failed chunk is not retried, the remaining ones not requested.
C4_NoRequestAfterFailure ==
    [][/\ (pc = "process" /\ (\/ r.status # 200
                              \/ r.error
                              \/ ~r.parseable
                              \/ Len(r.vals) # chunk_size))
            => (fetch_status' = "raised" /\ exc' # "none" /\ log' = log)
       /\ (fetch_status # "raised" /\ fetch_status' = "raised")
            => (pc' = "except" /\ exc' # "none")
       /\ fetch_status = "raised"
            => (/\ log' = log
                /\ fetch_status' = "raised"
                /\ exc' = exc
                /\ pc' \notin FetchPcs)]_vars

C4_Witness ==
    /\ pc = "done"
    /\ fetch_status = "raised"
    /\ exc = "RequestException"
    /\ Chunks = 4
    /\ log = <<"request", "sleep", "request">>

\* C5: when N mod C # 0 the fetcher fails with the configuration error
\* before any network activity: no request and no delay in that call.
C5_ConfigErrorBeforeNetwork ==
    n_bytes % chunk_size # 0 =>
        /\ log = <<>>
        /\ pc \notin {"loop", "process", "sleep"}
        /\ fetch_status # "returned"
        /\ pc \notin {"main", "fetch"} =>
              /\ fetch_status = "raised"
              /\ exc = "ValueError: n_bytes must be a multiple of chunk_size"

C5_Witness ==
    /\ pc = "except"
    /\ n_bytes = 10
    /\ chunk_size = 4
    /\ exc = "ValueError: n_bytes must be a multiple of chunk_size"
    /\ log = <<>>

\* C6: the generator is used only when fallback is enabled and the fetcher
\* has failed, and then gives exactly N values in 0..255; when the fetcher
\* fails and fallback is disabled the run exits with an error and computes
\* no statistics.
C6_FallbackOnlyWhenEnabled ==
    /\ [](prng_calls > 0 =>
            /\ use_fallback
            /\ fetch_status = "raised"
            /\ prng_calls = 1
            /\ Len(prng_out) = n_bytes
            /\ \A i \in 1..Len(prng_out) : prng_out[i] \in 0..255)
    /\ []((fetch_status = "raised" /\ ~use_fallback) =>
            /\ pc \in {"except", "exited"}
            /\ computed = {}
            /\ prng_calls = 0
            /\ pc = "exited" => exit_code = 1)
    /\ [][(pc = "except" /\ ~use_fallback) =>
            (pc' = "exited" /\ exit_code' = 1)]_vars

C6_Witness ==
    /\ pc = "done"
    /\ use_fallback
    /\ prng_calls = 1
    /\ n_bytes = 16
    /\ Len(prng_out) = 16
    /\ prng_out[1] # prng_out[2]

\* C7: requests are issued one at a time and a delay follows every accepted
\* chunk, so between two successive requests of a fetch a delay occurs.
C7_DelayBetweenRequests ==
    /\ \A i \in 1..(Len(log) - 1) :
          log[i] = "request" => log[i + 1] = "sleep"
    /\ CountOf(log, "sleep") =
          IF pc = "sleep" THEN Len(responses) - 1 ELSE Len(responses)
    /\ pc = "process" => log[Len(log)] = "request"

C7_Witness ==
    /\ pc = "process"
    /\ log = <<"request", "sleep", "request", "sleep", "request">>

\* C8: for every buffer length N, perfect square or not, the 256 histogram
\* counts of the run sum to the length of the buffer the fetch-or-fallback
\* step produced, and for a constant buffer of value v the count of v is the
\* whole length and every other count is 0.
C8_HistogramCountsWholeBuffer ==
    pc = "done" =>
        /\ SumRange(hist_counts, 0, 255) = Len(buffer)
        /\ \A v \in 0..255 :
              (\A i \in 1..Len(buffer) : buffer[i] = v) =>
                  \A u \in 0..255 :
                      hist_counts[u] = IF u = v THEN Len(buffer) ELSE 0

\* C9: the grid has the largest side with side*side <= n, holds the first
\* side*side elements in their order, row-major, and drops the rest: length
\* 10 gives 3x3 dropping one element, length 16 gives 4x4 using all.
C9_ReshapeRowMajorTruncates ==
    "img" \in computed =>
        /\ side >= 0
        /\ side * side <= Len(buffer)
        /\ (side + 1) * (side + 1) > Len(buffer)
        /\ data = SubSeq(buffer, 1, side * side)
        /\ DOMAIN img = 0..(side - 1)
        /\ \A row \in 0..(side - 1) :
              /\ DOMAIN img[row] = 0..(side - 1)
              /\ \A col \in 0..(side - 1) :
                    img[row][col] = buffer[row * side + col + 1]
        /\ Len(buffer) = 10 => (side = 3 /\ Len(data) = 9)
        /\ Len(buffer) = 16 => (side = 4 /\ data = buffer)

C9_Witness ==
    /\ pc = "done"
    /\ Len(buffer) = 10
    /\ side = 3
    /\ Len(data) = 9
    /\ img[0][1] # img[1][0]

====
